---- MODULE Spec2Model ----
(***************************************************************************)
(* GtkTim2SortModel (gtk/gtktim2sortmodel.c): a list model that presents   *)
(* the items of a backing GListModel sorted by a GtkSorter, sorting        *)
(* incrementally from an idle callback.                                    *)
(*                                                                         *)
(* Every function of the file is an operator from an object record         *)
(* (the fields of struct _GtkTim2SortModel plus what the handler emitted)  *)
(* to the object record after the call; every public entry point and       *)
(* signal handler is one action.                                           *)
(***************************************************************************)
EXTENDS Integers, Sequences, FiniteSets, TLC

\* ------------------------------------------------------------------ bounds
NItems == 3     \* item objects 1..NItems
MaxLen == 3     \* longest backing list

\* guint arithmetic is unsigned and wraps. TLC's integers are 32 bits signed,
\* so the modulus is 2^30 here where the C type has 2^32: every quantity of
\* the model is far below either, and a difference that goes negative wraps
\* to a huge value under both.
GUINT_MOD == 1073741824

Items == 1..NItems
Orders == {"NONE", "ASC", "DESC"}

\* Model and sorter pointers are kept up to renaming: NULL, the object the
\* field holds, and (as an argument) an object other than the one held.
\* An item pointer is the item's number, 0 for NULL.
NULL == "NULL"
HELD == "held"
OTHER_OBJECT == "other"

\* The sort key of an item object; items 2 and 3 compare equal.
Key(i) == i \div 2

Min2(a, b) == IF a < b THEN a ELSE b
Max2(a, b) == IF a > b THEN a ELSE b
USub(a, b) == (a - b) % GUINT_MOD
UAdd(a, b) == (a + b) % GUINT_MOD

Range(f) == {f[i] : i \in DOMAIN f}
IsInjective(f) == \A i, j \in DOMAIN f : f[i] = f[j] => i = j

\* Lists of pairwise distinct items, of length at most n.
DistinctSeqs(S, n) ==
  UNION {{f \in [1..k -> S] : IsInjective(f)} : k \in 0..n}

\* What a GListModel may hold: the items of a list are distinct objects.
Lists == DistinctSeqs(Items, MaxLen)

VARIABLES
  model,      \* self->model: NULL or HELD
  backing,    \* the items of self->model, in its order (<<>> when NULL)
  sorter,     \* self->sorter: NULL or HELD
  order,      \* what self->sorter reports and compares by
  items,      \* self->items: the SortArray of [item, position]
  sort_cb,    \* self->sort_cb: 0 or the id of the idle source
  sort,       \* self->sort: the GtkTimSort
  refs,       \* per item object, the references the SortArray owns on it
  sources,    \* the idle sources registered with the main loop
  last        \* what the last handler was called with, saw and emitted

vars == <<model, backing, sorter, order, items, sort_cb, sort, refs, sources,
          last>>

\* ------------------------------------------------------------ the sorter
\* gtk_sorter_compare: GTK_ORDERING_SMALLER -1, EQUAL 0, LARGER 1
gtk_sorter_compare(ord, a, b) ==
  CASE ord = "ASC"  -> (IF Key(a) < Key(b) THEN -1 ELSE IF Key(a) > Key(b) THEN 1 ELSE 0)
    [] ord = "DESC" -> (IF Key(a) > Key(b) THEN -1 ELSE IF Key(a) < Key(b) THEN 1 ELSE 0)
    [] OTHER        -> 0

sort_func(ord, sa, sb) == gtk_sorter_compare(ord, sa.item, sb.item)

\* ------------------------------------------------------------ GtkTimSort
\* The engine sorts self->items in place, one bounded unit of work a step.
IdleSort == [active |-> FALSE, size |-> 0, already_sorted |-> 0, cursor |-> 0]

\* Initializing an engine that was not finished, or finishing one that was
\* not initialized, is recorded in faults.
gtk_tim_sort_init(s) ==
  [s EXCEPT !.sort = [active |-> TRUE, size |-> Len(s.items),
                      already_sorted |-> 0, cursor |-> 0],
            !.faults = IF s.sort.active THEN @ \cup {"init_while_active"} ELSE @]

gtk_tim_sort_set_already_sorted(s, n) ==
  [s EXCEPT !.sort.already_sorted = n, !.sort.cursor = n]

gtk_tim_sort_finish(s) ==
  [s EXCEPT !.sort = IdleSort,
            !.faults = IF s.sort.active THEN @ ELSE @ \cup {"finish_while_idle"}]

\* Whether the engine has work left: the leading Max(cursor, 1) entries count
\* as sorted, the rest is still to be merged in.
gtk_tim_sort_has_work(s) == Max2(s.sort.cursor, 1) < s.sort.size

\* One step: the first entry after the sorted prefix is moved left past the
\* entries that compare strictly greater (stable).
gtk_tim_sort_step(s) ==
  LET c  == Max2(s.sort.cursor, 1)
      x  == s.items[c + 1]
      p  == CHOOSE q \in 1..(c + 1) :
              /\ \A r \in q..c : sort_func(s.order, s.items[r], x) = 1
              /\ (q > 1 => sort_func(s.order, s.items[q - 1], x) # 1)
      merged == [k \in 1..Len(s.items) |->
                   IF k < p THEN s.items[k]
                   ELSE IF k = p THEN x
                   ELSE IF k <= c + 1 THEN s.items[k - 1]
                   ELSE s.items[k]]
  IN [s EXCEPT !.items = merged, !.sort.cursor = c + 1]

\* ------------------------------------------------------------ main loop
\* g_idle_add: one more idle source; the id returned is not 0.
g_idle_add(s) ==
  [s EXCEPT !.sort_cb = 1, !.sources = @ + 1,
            !.faults = IF s.sources > 0 THEN @ \cup {"two_idle_sources"} ELSE @]

\* g_clear_handle_id (&self->sort_cb, g_source_remove)
g_source_remove(s) == [s EXCEPT !.sort_cb = 0, !.sources = @ - 1]

\* ------------------------------------------------------------ SortArray
\* g_list_model_get_item returns a new reference, which the entry owns.
g_list_model_get_item(s, item) == [s EXCEPT !.refs[item] = @ + 1]

\* sort_item_clear: g_clear_object (&si->item) on the entry k (1-based).
sort_item_clear(s, k) ==
  IF s.items[k].item = 0 THEN s
  ELSE [s EXCEPT !.refs[s.items[k].item] = @ - 1, !.items[k].item = 0]

\* The free function run over the entries from..Len, in order.
RECURSIVE sort_array_free_elements(_, _)
sort_array_free_elements(s, from) ==
  IF from > Len(s.items) THEN s
  ELSE sort_array_free_elements(sort_item_clear(s, from), from + 1)

\* sort_array_set_size to a smaller size: the entries cut off are freed.
sort_array_set_size(s, size) ==
  [sort_array_free_elements(s, size + 1) EXCEPT !.items = SubSeq(@, 1, size)]

sort_array_clear(s) == sort_array_set_size(s, 0)

\* sort_array_append of entry e, whose item was just obtained from the model.
sort_array_append(s, e) ==
  [g_list_model_get_item(s, e.item) EXCEPT !.items = Append(@, e)]

\* ---------------------------------------------------------- notifications
g_list_model_items_changed(s, start, removed, added) ==
  [s EXCEPT !.notes = Append(@, <<start, removed, added>>)]

g_object_notify_by_pspec(s, prop) ==
  [s EXCEPT !.props = Append(@, prop)]

\* ------------------------------------------------------ GListModel iface
gtk_tim2_sort_model_get_n_items(s) ==
  IF s.model = NULL THEN 0 ELSE Len(s.backing)

\* position is 0-based; 0 is NULL
gtk_tim2_sort_model_get_item(s, position) ==
  IF s.model = NULL THEN 0
  ELSE IF s.items = <<>>
    THEN (IF position < Len(s.backing) THEN s.backing[position + 1] ELSE 0)
  ELSE IF position >= Len(s.items) THEN 0
  ELSE s.items[position + 1].item

\* ------------------------------------------------------------- internals
gtk_tim2_sort_model_is_sorting(s) == s.sort_cb # 0

gtk_tim2_sort_model_stop_sorting(s) ==
  IF s.sort_cb = 0 THEN s
  ELSE g_object_notify_by_pspec(
         g_source_remove(gtk_tim_sort_finish(s)), "sorting")

gtk_tim2_sort_model_start_sorting(s) ==
  IF s.sort_cb # 0 THEN s
  ELSE g_object_notify_by_pspec(g_idle_add(s), "sorting")

\* clear_items that empties the store under a running session.
clear_items_keeps_session(s) == sort_array_clear(s)

gtk_tim2_sort_model_clear_items(s) ==
  LET t == gtk_tim2_sort_model_stop_sorting(s)
  IN [sort_array_clear(t) EXCEPT
        !.mutated_while_sorting = @ \/ (t.sort_cb # 0 /\ t.items # <<>>)]

\* should_sort that does not ask the sorter for its order.
should_sort_ignores_order(s) == s.sorter # NULL /\ s.model # NULL

gtk_tim2_sort_model_should_sort(s) ==
  s.sorter # NULL /\ s.model # NULL /\ s.order # "NONE"

\* create_items without the should_sort test.
create_items_unconditional(s) ==
  [s EXCEPT !.items = @ \o [i \in 1..Len(s.backing) |->
                              [item |-> s.backing[i], position |-> i - 1]]]

\* (SortItem) { g_list_model_get_item (self->model, i), i }
new_sort_item(s, i) == [item |-> s.backing[i + 1], position |-> i]

\* for (i = 0; i < n_items; i++) sort_array_append (...)
RECURSIVE create_items_loop(_, _, _)
create_items_loop(s, i, n_items) ==
  IF i >= n_items THEN s
  ELSE create_items_loop(sort_array_append(s, new_sort_item(s, i)),
                         i + 1, n_items)

gtk_tim2_sort_model_create_items(s) ==
  IF ~gtk_tim2_sort_model_should_sort(s) THEN s
  ELSE LET n_items == Len(s.backing)
       IN [create_items_loop(s, 0, n_items) EXCEPT
             !.mutated_while_sorting = @ \/ (s.sort_cb # 0 /\ n_items > 0)]

\* resort that does not stop the session it finds.
resort_without_stop(s, already_sorted) ==
  gtk_tim2_sort_model_start_sorting(
    gtk_tim_sort_set_already_sorted(gtk_tim_sort_init(s), already_sorted))

gtk_tim2_sort_model_resort(s, already_sorted) ==
  LET was == gtk_tim2_sort_model_is_sorting(s)
      a   == IF was THEN 0 ELSE already_sorted
      t   == IF was THEN gtk_tim2_sort_model_stop_sorting(s) ELSE s
      u   == gtk_tim_sort_set_already_sorted(gtk_tim_sort_init(t), a)
  IN gtk_tim2_sort_model_start_sorting(u)

\* The shift that forgets the added items.
shifted_position_forgets_added(pos, removed, added) == USub(pos, removed)

\* si->position = si->position - removed + added;
shifted_position(pos, removed, added) == UAdd(USub(pos, removed), added)

\* The tail that counts the dropped entry itself as unmodified.
unmodified_tail_counts_dropped(n_items, i) == n_items - i

\* end = n_items - i - 1: the entries after the dropped entry i.
unmodified_tail(n_items, i) == n_items - i - 1

\* The scan of remove_items, entry i (0-based) onwards. acc carries the
\* object as the loop leaves it, valid, start and end.
RECURSIVE remove_items_loop(_, _, _, _, _, _)
remove_items_loop(acc, i, n_items, position, removed, added) ==
  IF i >= n_items THEN acc
  ELSE
    LET si == acc.obj.items[i + 1] IN
    IF si.position >= UAdd(position, removed) \/ si.position < position
    THEN
      LET moved  == IF si.position >= UAdd(position, removed)
                      THEN [si EXCEPT !.position = shifted_position(@, removed, added)]
                      ELSE si
          atI    == [acc.obj.items EXCEPT ![i + 1] = moved]
          copied == IF acc.valid < i
                      THEN [atI EXCEPT ![acc.valid + 1] = moved]
                      ELSE atI
      IN remove_items_loop([acc EXCEPT !.obj.items = copied, !.valid = @ + 1],
                           i + 1, n_items, position, removed, added)
    ELSE
      \* sort_item_clear (si); continue;
      remove_items_loop([acc EXCEPT !.start = Min2(@, acc.valid),
                                    !.end = unmodified_tail(n_items, i),
                                    !.obj = sort_item_clear(@, i + 1)],
                        i + 1, n_items, position, removed, added)

\* remove_items without the memset: the tail keeps what the scan left there.
memset_skipped(s, from, count) == s

\* memset (sort_array_index (&self->items, from), 0, sizeof (SortItem) * count)
memset_zero(s, from, count) ==
  [s EXCEPT !.items = [k \in DOMAIN s.items |->
                         IF k > from /\ k <= from + count
                           THEN [item |-> 0, position |-> 0]
                           ELSE s.items[k]]]

gtk_tim2_sort_model_remove_items(s, position, removed, added) ==
  LET n_items == Len(s.items)
      acc == remove_items_loop(
               [obj |-> s, valid |-> 0, start |-> n_items, end |-> n_items],
               0, n_items, position, removed, added)
  IN IF acc.valid # USub(n_items, removed)
       THEN [s EXCEPT !.aborted = TRUE]      \* g_assert fails
       ELSE [sort_array_set_size(memset_zero(acc.obj, acc.valid, removed),
                                 acc.valid) EXCEPT
               !.mutated_while_sorting = @ \/ (s.sort_cb # 0 /\ n_items > 0),
               !.unmodified_start = acc.start,
               !.unmodified_end = acc.end]

\* The appended entry that records its store index, not its backing index.
appended_sort_item_store_index(s, i) ==
  [item |-> s.backing[i + 1], position |-> Len(s.items)]

\* The entry items_changed_cb appends for the new backing item i.
appended_sort_item(s, i) == [item |-> s.backing[i + 1], position |-> i]

\* The hint that counts the appended items as sorted too.
items_changed_hint_trusts_all(was_sorting, size, added) ==
  IF was_sorting THEN 0 ELSE size

\* The hint that keeps the old prefix although a sort was cut short.
items_changed_hint_ignores_sorting(was_sorting, size, added) == size - added

\* The hint items_changed_cb hands to resort after it appended `added` items.
items_changed_hint(was_sorting, size, added) ==
  IF was_sorting THEN 0 ELSE size - added

\* What items_changed_cb does for a removal-only change.
items_changed_removed_only(s, was_sorting) ==
  IF was_sorting THEN gtk_tim2_sort_model_resort(s, 0) ELSE s

\* for (i = position; i < position + added; i++) sort_array_append (...)
RECURSIVE items_changed_append(_, _, _)
items_changed_append(s, i, end) ==
  IF i >= end THEN s
  ELSE items_changed_append(sort_array_append(s, appended_sort_item(s, i)),
                            i + 1, end)

\* s.backing is the backing list after the change: the signal is emitted
\* once the GListModel has changed.
gtk_tim2_sort_model_items_changed_cb(s, position, removed, added) ==
  IF removed = 0 /\ added = 0 THEN s
  ELSE IF ~gtk_tim2_sort_model_should_sort(s)
    THEN g_list_model_items_changed(s, position, removed, added)
  ELSE
    LET was_sorting == gtk_tim2_sort_model_is_sorting(s)
        t == gtk_tim2_sort_model_stop_sorting(s)
        r == gtk_tim2_sort_model_remove_items(t, position, removed, added)
        appended ==
          [items_changed_append(r, position, position + added) EXCEPT
             !.mutated_while_sorting = @ \/ (r.sort_cb # 0)]
        u == IF added > 0
               THEN gtk_tim2_sort_model_resort(
                      appended,
                      items_changed_hint(was_sorting, Len(appended.items), added))
               ELSE items_changed_removed_only(r, was_sorting)
        n_items == USub(USub(Len(u.items), r.unmodified_start), r.unmodified_end)
    IN IF r.aborted THEN r
       ELSE g_list_model_items_changed(
              u, r.unmodified_start, UAdd(USub(n_items, added), removed), n_items)

\* sorter_changed_cb that leaves an empty store empty.
sorter_changed_cb_no_rebuild(s) ==
  LET t == IF s.order = "NONE" THEN gtk_tim2_sort_model_clear_items(s) ELSE s
      u == gtk_tim2_sort_model_resort(t, 0)
      n_items == gtk_tim2_sort_model_get_n_items(u)
  IN IF n_items > 1 THEN g_list_model_items_changed(u, 0, n_items, n_items) ELSE u

gtk_tim2_sort_model_sorter_changed_cb(s) ==
  LET t == IF s.order = "NONE" THEN gtk_tim2_sort_model_clear_items(s)
           ELSE IF s.items = <<>> THEN gtk_tim2_sort_model_create_items(s)
           ELSE s
      u == gtk_tim2_sort_model_resort(t, 0)
      n_items == gtk_tim2_sort_model_get_n_items(u)
  IN IF n_items > 1 THEN g_list_model_items_changed(u, 0, n_items, n_items) ELSE u

gtk_tim2_sort_model_clear_model(s) ==
  IF s.model = NULL THEN s
  ELSE gtk_tim2_sort_model_clear_items([s EXCEPT !.model = NULL, !.backing = <<>>])

\* clear_sorter that leaves the store and the session alone.
clear_sorter_keeps_items(s) ==
  IF s.sorter = NULL THEN s ELSE [s EXCEPT !.sorter = NULL, !.order = "NONE"]

gtk_tim2_sort_model_clear_sorter(s) ==
  IF s.sorter = NULL THEN s
  ELSE gtk_tim2_sort_model_clear_items([s EXCEPT !.sorter = NULL, !.order = "NONE"])

gtk_tim2_sort_model_dispose(s) ==
  gtk_tim2_sort_model_clear_sorter(gtk_tim2_sort_model_clear_model(s))

\* content is what the GListModel m holds when it is set.
gtk_tim2_sort_model_set_model(s, m, content) ==
  IF s.model = m THEN s
  ELSE
    LET removed == gtk_tim2_sort_model_get_n_items(s)
        t == gtk_tim2_sort_model_clear_model(s)
        u == IF m # NULL
               THEN gtk_tim2_sort_model_resort(
                      gtk_tim2_sort_model_create_items(
                        [t EXCEPT !.model = HELD, !.backing = content]), 0)
               ELSE t
        added == IF m # NULL THEN Len(content) ELSE 0
        v == IF removed > 0 \/ added > 0
               THEN g_list_model_items_changed(u, 0, removed, added)
               ELSE u
    IN g_object_notify_by_pspec(v, "model")

\* ord is what the GtkSorter srt reports when it is set.
gtk_tim2_sort_model_set_sorter(s, srt, ord) ==
  LET t == gtk_tim2_sort_model_clear_sorter(s)
      n_items == gtk_tim2_sort_model_get_n_items(t)
      u == IF srt # NULL
             THEN gtk_tim2_sort_model_sorter_changed_cb(
                    [t EXCEPT !.sorter = HELD, !.order = ord])
             ELSE IF n_items > 1
               THEN g_list_model_items_changed(t, 0, n_items, n_items)
               ELSE t
  IN g_object_notify_by_pspec(u, "sorter")

\* The idle callback that keeps its source when the engine has no work left.
sort_cb_never_stops(s) ==
  IF gtk_tim_sort_has_work(s)
    THEN LET t == gtk_tim_sort_step(s)
             n_items == Len(t.items)
         IN g_list_model_items_changed(t, 0, n_items, n_items)
    ELSE s

\* The idle callback that ends the session without looking at the engine.
sort_cb_gives_up(s) == gtk_tim2_sort_model_stop_sorting(s)

\* The idle callback. G_SOURCE_CONTINUE keeps the source, G_SOURCE_REMOVE
\* (after stop_sorting removed it) ends it.
gtk_tim2_sort_model_sort_cb(s) ==
  IF gtk_tim_sort_has_work(s)
    THEN LET t == gtk_tim_sort_step(s)
             n_items == Len(t.items)
         IN g_list_model_items_changed(t, 0, n_items, n_items)
    ELSE gtk_tim2_sort_model_stop_sorting(s)

\* ------------------------------------------------------------ the machine
\* The object as a handler finds it.
Self ==
  [model |-> model, backing |-> backing, sorter |-> sorter, order |-> order,
   items |-> items, sort_cb |-> sort_cb, sort |-> sort,
   refs |-> refs, sources |-> sources, faults |-> {},
   notes |-> <<>>, props |-> <<>>, mutated_while_sorting |-> FALSE,
   aborted |-> FALSE, unmodified_start |-> 0, unmodified_end |-> 0]

\* The view a consumer reads through the GListModel interface.
ViewOf(s) ==
  [p \in 1..gtk_tim2_sort_model_get_n_items(s) |->
     gtk_tim2_sort_model_get_item(s, p - 1)]

View == ViewOf(Self)

NoArgs == [position |-> 0, removed |-> 0, added |-> 0, same |-> FALSE]

\* The object after a handler, and the record of the call: what it was called
\* with, the store length it found and what it emitted.
Commit(op, args, handled) ==
  \E s \in {handled} :
    /\ model' = s.model
    /\ backing' = s.backing
    /\ sorter' = s.sorter
    /\ order' = s.order
    /\ items' = s.items
    /\ sort_cb' = s.sort_cb
    /\ sort' = s.sort
    /\ refs' = s.refs
    /\ sources' = s.sources
    /\ last' = [op |-> op, position |-> args.position, removed |-> args.removed,
                added |-> args.added, same |-> args.same,
                old_size |-> Len(items),
                notes |-> s.notes, props |-> s.props, faults |-> s.faults,
                mutated_while_sorting |-> s.mutated_while_sorting,
                aborted |-> s.aborted,
                unmodified_start |-> s.unmodified_start,
                unmodified_end |-> s.unmodified_end]

Init ==
  /\ model = NULL
  /\ backing = <<>>
  /\ sorter = NULL
  /\ order = "NONE"
  /\ items = <<>>
  /\ sort_cb = 0
  /\ sort = IdleSort
  /\ refs = [x \in Items |-> 0]
  /\ sources = 0
  /\ last = [op |-> "init", position |-> 0, removed |-> 0, added |-> 0,
             same |-> FALSE, old_size |-> 0,
             notes |-> <<>>, props |-> <<>>, faults |-> {},
             mutated_while_sorting |-> FALSE, aborted |-> FALSE,
             unmodified_start |-> 0, unmodified_end |-> 0]

\* The program runs until an assertion fails or the object is disposed.
Running == ~last.aborted /\ last.op # "dispose"

\* set_model with NULL, with the model held, or with another model, which
\* holds any list of distinct items.
SetModel ==
  /\ Running
  /\ \E m \in {NULL, HELD, OTHER_OBJECT} :
       /\ m = HELD => model = HELD
       /\ \E content \in (IF m = OTHER_OBJECT THEN Lists ELSE {backing}) :
            Commit("set_model", [NoArgs EXCEPT !.same = (m = model)],
                   gtk_tim2_sort_model_set_model(Self, m, content))

\* set_sorter with NULL, with the sorter held (it reports what it reported),
\* or with another sorter, which reports any order.
SetSorter ==
  /\ Running
  /\ \E srt \in {NULL, HELD, OTHER_OBJECT} :
       /\ srt = HELD => sorter = HELD
       /\ \E ord \in (IF srt = OTHER_OBJECT THEN Orders
                      ELSE IF srt = HELD THEN {order} ELSE {"NONE"}) :
            Commit("set_sorter", [NoArgs EXCEPT !.same = (srt = sorter)],
                   gtk_tim2_sort_model_set_sorter(Self, srt, ord))

\* The sorter held emits "changed"; it may report another order.
SorterChanged ==
  /\ Running
  /\ sorter # NULL
  /\ \E ord \in Orders :
       Commit("sorter_changed", NoArgs,
              gtk_tim2_sort_model_sorter_changed_cb([Self EXCEPT !.order = ord]))

\* The model held replaces `removed` items at `position` by the items of
\* `new` and emits "items-changed".
ItemsChanged ==
  /\ Running
  /\ model # NULL
  /\ \E position \in 0..Len(backing) :
       \E removed \in 0..(Len(backing) - position) :
         LET head == SubSeq(backing, 1, position)
             tail == SubSeq(backing, position + removed + 1, Len(backing))
         IN \E new \in {l \in Lists : head \o l \o tail \in Lists} :
              Commit("items_changed",
                     [NoArgs EXCEPT !.position = position, !.removed = removed,
                                    !.added = Len(new)],
                     gtk_tim2_sort_model_items_changed_cb(
                       [Self EXCEPT !.backing = head \o new \o tail],
                       position, removed, Len(new)))

\* The main loop runs the idle source.
SortCb ==
  /\ Running
  /\ sort_cb # 0
  /\ Commit("sort_cb", NoArgs, gtk_tim2_sort_model_sort_cb(Self))

\* The last reference on the object is dropped.
Dispose ==
  /\ Running
  /\ Commit("dispose", NoArgs, gtk_tim2_sort_model_dispose(Self))

Next ==
  SetModel \/ SetSorter \/ SorterChanged \/ ItemsChanged \/ SortCb \/ Dispose

Spec == Init /\ [][Next]_vars

\* The main loop dispatches a registered idle source again and again, for
\* as long as it stays registered.
LiveSpec == Spec /\ WF_vars(SortCb)

\* ------------------------------------------------------------- vocabulary
ShouldSort == gtk_tim2_sort_model_should_sort(Self)

\* No entry of its compares greater than its successor.
Ordered(ord, its) ==
  \A k \in 1..(Len(its) - 1) : sort_func(ord, its[k], its[k + 1]) # 1

Count(f, x) == Cardinality({p \in DOMAIN f : f[p] = x})

\* The handler that just returned was items_changed_cb, for a change that is
\* not empty.
EditHandled == last.op = "items_changed" /\ (last.removed > 0 \/ last.added > 0)

\* The sorter, the model and the order were set and no idle source is left.
Settled == model # NULL /\ sorter # NULL /\ order # "NONE" /\ sort_cb = 0

\* ------------------------------------------------------------------ C1
\* C1: once settled (model set, sorter with an order set, no session
\* active), the view holds every backing item exactly as often as the backing
\* list does, and no view item compares greater than its successor.
C1_SettledViewIsSortedPermutation ==
  Settled =>
    /\ Len(View) = Len(backing)
    /\ \A x \in Items : Count(View, x) = Count(backing, x)
    /\ \A k \in 1..(Len(View) - 1) :
         gtk_sorter_compare(order, View[k], View[k + 1]) # 1

\* A session ran to its end and left a view that differs from the backing order.
C1_Witness ==
  /\ Settled
  /\ last.op = "sort_cb"
  /\ Len(backing) >= 2
  /\ View # backing

\* ------------------------------------------------------------------ C2
\* The first items-changed the handler emitted.
Note == last.notes[1]
UnmodifiedTail == last.unmodified_end

\* C2: the notification (start, r, a) items_changed_cb emits for a change
\* handled in sorting mode is never narrower than the change: every view
\* position below start holds the same item before and after, and so does every
\* position among the last unmodified_end, counted from the end.
C2_NotificationNeverNarrower ==
  [][(EditHandled' /\ ShouldSort) =>
       /\ \A p \in 1..Note'[1] :
            p <= Len(View) /\ p <= Len(View') /\ View[p] = View'[p]
       /\ \A k \in 0..(UnmodifiedTail' - 1) :
            /\ k < Len(View) /\ k < Len(View')
            /\ View[Len(View) - k] = View'[Len(View') - k]]_vars

\* ------------------------------------------------------------------ C3
\* C3: with no sorter set, get_n_items is the backing length, get_item(i) is
\* the backing item i for every valid i, and the store is empty.
C3_PassThroughWithoutSorter ==
  sorter = NULL =>
    /\ items = <<>>
    /\ model # NULL => gtk_tim2_sort_model_get_n_items(Self) = Len(backing)
    /\ \A i \in 0..(Len(backing) - 1) :
         gtk_tim2_sort_model_get_item(Self, i) = backing[i + 1]

\* A backing change was handled with a model of two items and no sorter.
C3_Witness ==
  /\ sorter = NULL
  /\ model # NULL
  /\ EditHandled
  /\ Len(backing) >= 2

\* ------------------------------------------------------------------ C4
\* C4: after every handler the store is empty or as long as the backing list,
\* and it is empty when no model is set, no sorter is set or the sorter has no
\* order.
C4_StoreEmptyOrFull ==
  /\ items = <<>> \/ Len(items) = Len(backing)
  /\ (model = NULL \/ sorter = NULL \/ order = "NONE") => items = <<>>

\* A replacement was handled and left a populated store.
C4_Witness ==
  /\ EditHandled
  /\ last.removed > 0
  /\ last.added > 0
  /\ Len(items) >= 2
  /\ Len(items) = Len(backing)

\* ------------------------------------------------------------------ C5
\* C5: the positions of a populated store are pairwise distinct and below the
\* backing length, and the assertion valid == n_items - removed of
\* remove_items never fails.
C5_PositionsDistinctInRange ==
  /\ ~last.aborted
  /\ \A k \in DOMAIN items : items[k].position \in 0..(Len(backing) - 1)
  /\ \A j, k \in DOMAIN items : items[j].position = items[k].position => j = k

\* remove_items dropped an entry and shifted another over added items.
C5_Witness ==
  /\ EditHandled
  /\ ShouldSort
  /\ last.removed > 0
  /\ last.added > 0
  /\ last.position = 0
  /\ Len(items) >= 2

\* ------------------------------------------------------------------ C6
\* C6: the position of every store entry is the index its item has in the
\* backing list now.
C6_PositionIsBackingIndex ==
  \A k \in DOMAIN items :
    /\ items[k].position < Len(backing)
    /\ backing[items[k].position + 1] = items[k].item

\* An insertion in front of a populated store: the old entry was shifted, and
\* the store is not in backing order.
C6_Witness ==
  /\ EditHandled
  /\ ShouldSort
  /\ last.position = 0
  /\ last.removed = 0
  /\ last.added = 1
  /\ Len(items) >= 2
  /\ items[1].position # 0

\* ------------------------------------------------------------------ C7
\* C7: no handler changes the store (create_items, remove_items, the append
\* of items_changed_cb, clear_items) while a session is active.
C7_StoreMutatedOnlyWhenIdle == ~last.mutated_while_sorting

\* ------------------------------------------------------------------ C8
\* C8: a non-empty change handled in sorting mode while a session is active
\* ends the session and leaves a new one started with already_sorted 0; a
\* change that only adds, handled while no session is active, leaves a session
\* started with already_sorted equal to the store length before the change.
C8_ResortHintAfterEdit ==
  [][(EditHandled' /\ ShouldSort) =>
       /\ sort_cb # 0 =>
            /\ sort_cb' # 0
            /\ sort'.already_sorted = 0
            /\ last'.props = <<"sorting", "sorting">>
       /\ (sort_cb = 0 /\ last'.removed = 0) =>
            /\ sort_cb' # 0
            /\ sort'.already_sorted = Len(items)
            /\ last'.props = <<"sorting">>]_vars

\* An item was added to a populated, idle store: the session starts with the
\* old length as its hint.
C8_Witness ==
  /\ EditHandled
  /\ ShouldSort
  /\ last.removed = 0
  /\ sort_cb # 0
  /\ sort.already_sorted >= 1
  /\ sort.already_sorted = Len(items) - last.added

\* ------------------------------------------------------------------ C9
\* C9: whenever a session is active, a model is set and a sorter with an
\* order is set.
C9_SessionOnlyWhenSorting ==
  sort_cb # 0 => (model # NULL /\ sorter # NULL /\ order # "NONE")

\* ----------------------------------------------------------------- C10
\* C10: with a model and a sorter with an order set and no session active,
\* no store entry compares greater than its successor.
C10_SortedStateIsOrdered ==
  Settled => Ordered(order, items)

\* A removal handled while no session was active left the store populated,
\* with no session started.
C10_Witness ==
  /\ Settled
  /\ EditHandled
  /\ last.added = 0
  /\ items # <<>>
  /\ last.props = <<>>

\* ----------------------------------------------------------------- C11
\* C11: set_model called with the model held, or set_sorter called with the
\* sorter held (NULL when none is held), changes nothing: the store, sort_cb
\* and the references held stay as they were and neither an items-changed nor
\* a property notification is emitted.
C11_SameReferenceIsNoOp ==
  [][(last'.op \in {"set_model", "set_sorter"} /\ last'.same) =>
       /\ items' = items
       /\ sort_cb' = sort_cb
       /\ model' = model
       /\ sorter' = sorter
       /\ refs' = refs
       /\ last'.notes = <<>>
       /\ last'.props = <<>>]_vars

\* ----------------------------------------------------------------- C12
\* C12: when set_sorter (NULL) clears the sorter held while a session is
\* active, on return no session is active (sort_cb = 0), the store is empty,
\* the view is the backing list item by item, and no idle source of the old
\* session is left registered (the idle callback runs only while sort_cb # 0).
C12_ClearSorterEndsSession ==
  [][(last'.op = "set_sorter" /\ sorter' = NULL /\ sorter # NULL /\ sort_cb # 0) =>
       /\ sort_cb' = 0
       /\ items' = <<>>
       /\ View' = backing'
       /\ sources' = 0]_vars

\* set_sorter (NULL) ended a session over a model of two items or more.
C12_Witness ==
  /\ last.op = "set_sorter"
  /\ sorter = NULL
  /\ model # NULL
  /\ Len(backing) >= 2
  /\ last.props = <<"sorting", "sorter">>
  /\ last.notes = <<<<0, Len(backing), Len(backing)>>>>

\* ----------------------------------------------------------------- C13
\* No sorter is set, or the sorter set reports no order.
Degraded == sorter = NULL \/ order = "NONE"

\* C13: a change of the backing list handled while degraded emits exactly one
\* items-changed, with the (position, removed, added) it was called with, and
\* leaves the store and the session as they were; a change with removed = 0
\* and added = 0 emits nothing and changes nothing, degraded or not, session
\* active or not.
C13_DegradedEditForwarded ==
  [][(last'.op = "items_changed") =>
       /\ (Degraded /\ (last'.removed > 0 \/ last'.added > 0)) =>
            /\ last'.notes = <<<<last'.position, last'.removed, last'.added>>>>
            /\ last'.props = <<>>
            /\ items' = items
            /\ refs' = refs
            /\ sort_cb' = sort_cb
            /\ sort' = sort
            /\ sources' = sources
       /\ (last'.removed = 0 /\ last'.added = 0) =>
            /\ last'.notes = <<>>
            /\ last'.props = <<>>
            /\ items' = items
            /\ refs' = refs
            /\ sort_cb' = sort_cb
            /\ sort' = sort
            /\ sources' = sources]_vars

\* A replacement was forwarded while a sorter that reports no order is set.
C13_Witness ==
  /\ EditHandled
  /\ sorter # NULL
  /\ order = "NONE"
  /\ last.removed > 0
  /\ last.added > 0
  /\ last.position > 0
  /\ last.notes = <<<<last.position, last.removed, last.added>>>>

\* ----------------------------------------------------------------- C14
\* The store sorter_changed_cb builds from the backing list: entry k holds
\* backing item k and position k.
RebuiltFromBacking ==
  /\ Len(items) = Len(backing)
  /\ \A k \in DOMAIN items :
       items[k] = [item |-> backing[k], position |-> k - 1]

\* C14 as stated: a "changed" of the sorter received with a model set and the
\* store empty leaves the store rebuilt from the backing list and a session
\* started over it with already_sorted 0, whatever the sorter reports.
C14_SorterChangedRebuildsAlways ==
  [][(last'.op = "sorter_changed" /\ model # NULL /\ items = <<>>) =>
       /\ RebuiltFromBacking'
       /\ sort_cb' # 0
       /\ sort'.already_sorted = 0
       /\ sort'.size = Len(backing')]_vars

\* C14, amended: the same, when the sorter reports an order after the change.
C14_SorterChangedRebuilds ==
  [][(last'.op = "sorter_changed" /\ model # NULL /\ items = <<>>
        /\ order' # "NONE") =>
       /\ RebuiltFromBacking'
       /\ sort_cb' # 0
       /\ sort'.already_sorted = 0
       /\ sort'.size = Len(backing')]_vars

\* A "changed" found the store empty and left it rebuilt over three items.
C14_Witness ==
  /\ last.op = "sorter_changed"
  /\ last.old_size = 0
  /\ model # NULL
  /\ Len(backing) = MaxLen
  /\ RebuiltFromBacking
  /\ sort_cb # 0

\* ----------------------------------------------------------------- C15
\* The store entries that hold item x.
Holders(x) == {k \in DOMAIN items : items[k].item = x}

\* C15: after every handler the store owns, on every item, exactly as many
\* references as it has entries holding the item: none is released twice and
\* none is leaked by the scan, the compaction, the zeroing of the tail and the
\* truncation of remove_items, nor by clear_items.
C15_OneReferencePerEntry ==
  \A x \in Items : refs[x] = Cardinality(Holders(x))

\* A removal dropped the first store entry and compacted survivors over it.
C15_Witness ==
  /\ EditHandled
  /\ ShouldSort
  /\ last.removed > 0
  /\ last.added = 0
  /\ last.unmodified_start = 0
  /\ last.old_size = MaxLen
  /\ Len(items) >= 1
  /\ \E x \in Items : refs[x] = 1

\* ----------------------------------------------------------------- C16
\* C16: if from some point on the idle callback is the only handler that
\* runs (no change of the backing list, no "changed" of the sorter, no setter
\* call), while the main loop keeps dispatching the idle source, then the
\* session is ended for good: sort_cb is 0 from some point on, so "sorting"
\* reads false and no idle source is registered for the callback to be run
\* from.
C16_QuietSessionEnds ==
  <>[](last.op = "sort_cb") => <>[](sort_cb = 0 /\ sources = 0)

\* The idle callback found no work left over a store of MaxLen entries and
\* ended the session.
C16_Witness ==
  /\ last.op = "sort_cb"
  /\ sort_cb = 0
  /\ sources = 0
  /\ last.props = <<"sorting">>
  /\ Len(items) = MaxLen

\* ----------------------------------------------------------------- C17
\* C17: sessions never overlap and none is leaked: no handler initializes the
\* engine while it is initialized, finishes it while it is not, or registers
\* an idle source while one is registered; the engine is initialized exactly
\* while the one idle source is registered; and after dispose no session is
\* active.
C17_SessionsNeverOverlap ==
  /\ last.faults = {}
  /\ sources = (IF sort_cb # 0 THEN 1 ELSE 0)
  /\ sort.active = (sort_cb # 0)
  /\ last.op = "dispose" => (sort_cb = 0 /\ sources = 0 /\ ~sort.active)

\* A change of the backing list found a session active over the store, ended
\* it and started the next one.
C17_Witness ==
  /\ EditHandled
  /\ ShouldSort
  /\ last.old_size >= 2
  /\ last.props = <<"sorting", "sorting">>
  /\ sort_cb # 0
  /\ sources = 1

\* ----------------------------------------------------------------- C18
\* The first n entries of the store.
Prefix(n) == SubSeq(items, 1, n)

\* C18: the hint of every session is sound: the already_sorted resort handed
\* to the engine is at most the store length, the engine was initialized over
\* the whole store, and the first already_sorted entries of the store do not
\* compare greater than their successors, after whatever changes of the
\* backing list and of the sorter came before.
C18_HintIsSound ==
  sort.active =>
    /\ sort.already_sorted <= Len(items)
    /\ sort.size = Len(items)
    /\ Ordered(order, Prefix(sort.already_sorted))

\* A replacement handled while no session was active started a session that
\* keeps the two surviving entries as its sorted prefix.
C18_Witness ==
  /\ EditHandled
  /\ ShouldSort
  /\ last.removed > 0
  /\ last.added > 0
  /\ last.props = <<"sorting">>
  /\ sort.active
  /\ sort.already_sorted = 2
  /\ sort.cursor = 2

\* ----------------------------------------------------------------- C19
\* The view positions (1-based) whose entry the change dropped: the entries
\* whose position lies in [position, position + removed) of the old backing.
Dropped(pos, removed) ==
  {k \in DOMAIN items :
     items[k].position >= pos /\ items[k].position < pos + removed}

SetMin(S) == CHOOSE x \in S : \A y \in S : x <= y
SetMax(S) == CHOOSE x \in S : \A y \in S : x >= y

\* The sequence f without the indices in D.
RECURSIVE Without(_, _)
Without(f, D) ==
  IF f = <<>> THEN <<>>
  ELSE LET rest == Without(SubSeq(f, 1, Len(f) - 1), D)
       IN IF Len(f) \in D THEN rest ELSE Append(rest, f[Len(f)])

\* A removal-only change handled in sorting mode over a populated store.
RemovalHandled ==
  /\ last'.op = "items_changed"
  /\ last'.removed > 0
  /\ last'.added = 0
  /\ ShouldSort

\* C19 as stated: for a removal-only change handled in sorting mode the one
\* items-changed emitted is (start, r, 0), start the old view index of the
\* first dropped entry and start + r - 1 that of the last; the new view is the
\* old view without the dropped entries, the survivors in their old order.
C19_RemovalNotificationMinimal ==
  [][RemovalHandled =>
       LET D == Dropped(last'.position, last'.removed)
       IN /\ Len(last'.notes) = 1
          /\ last'.notes[1] = <<SetMin(D) - 1, SetMax(D) - SetMin(D) + 1, 0>>
          /\ View' = Without(View, D)]_vars

\* C19, amended: the items-changed emitted is (start, r, r - removed): the
\* survivors that sit between the first and the last dropped entry are
\* reported as added again.
C19_RemovalNotificationSpan ==
  [][RemovalHandled =>
       LET D == Dropped(last'.position, last'.removed)
           r == SetMax(D) - SetMin(D) + 1
       IN /\ Cardinality(D) = last'.removed
          /\ Len(last'.notes) = 1
          /\ last'.notes[1] = <<SetMin(D) - 1, r, r - last'.removed>>
          /\ View' = Without(View, D)]_vars

\* Two entries were dropped from a store of three, and the survivor sat
\* between them in the view.
C19_Witness ==
  /\ EditHandled
  /\ ShouldSort
  /\ last.removed = 2
  /\ last.added = 0
  /\ last.old_size = 3
  /\ last.notes = <<<<0, 3, 1>>>>

\* ----------------------------------------------------------------- C20
\* C20: the items-changed (start, r, a) emitted for a change handled in
\* sorting mode is well formed: size - start - end does not go below 0,
\* start + r is at most the view length before the change, start + a at most
\* the view length after it, and a - r = added - removed.
C20_NotificationWellFormed ==
  [][(EditHandled' /\ ShouldSort) =>
       /\ Len(last'.notes) = 1
       /\ Len(items') - last'.unmodified_start - last'.unmodified_end >= 0
       /\ Note'[1] + Note'[2] <= Len(View)
       /\ Note'[1] + Note'[3] <= Len(View')
       /\ Note'[3] - Note'[2] = last'.added - last'.removed]_vars

\* ----------------------------------------------------------- type sanity
TypeOK ==
  /\ model \in {NULL, HELD}
  /\ sorter \in {NULL, HELD}
  /\ order \in Orders
  /\ sort_cb \in {0, 1}
  /\ Len(backing) <= MaxLen
  /\ sort.active = (sort_cb # 0)

====
